---- MODULE Spec2Model ----
(***************************************************************************)
(* Model of the timeline layout engine of down-roadmap                     *)
(* (src/src/lib/timeline.ts): the date and text helpers, layoutTimeline    *)
(* and getBandLayout; of the mapping of Notion pages to roadmap items in   *)
(* getRoadmapData and of the pagination and endpoint fallback of           *)
(* querySourcePaginated (src/src/lib/notion.ts); and of the two adapters   *)
(* that draw a layout, the interactive page Home and the vector route GET. *)
(*                                                                         *)
(* Representation.                                                         *)
(*   - An ISO calendar date "YYYY-MM-DD" is the tuple <<y, m, d>>.         *)
(*   - A Date is its time value in milliseconds, counted from the model    *)
(*     epoch ModelEpochIso at 00:00 UTC instead of 1970-01-01 so that the  *)
(*     values fit the checker's integers; a use of a Date in the code is   *)
(*     a comparison or a difference, which the shift leaves unchanged, or  *)
(*     toISOString, which adds the epoch back.                             *)
(*   - A string is the sequence of its UTF-16 code units, each written as  *)
(*     a one-character string.                                             *)
(*   - Array indices (rows, lanes, findIndex) are 0-based as in the code;  *)
(*     the sequences that hold the arrays are 1-based.                     *)
(***************************************************************************)
EXTENDS Integers, Sequences, FiniteSets, TLC

VARIABLES
    experiments,     \* argument of layoutTimeline: ExperimentItem[]
    releases,        \* argument of layoutTimeline: ReleaseItem[]
    windowStartIso,  \* argument of layoutTimeline
    now,             \* the wall clock read by new Date() in layoutTimeline
    timeline,        \* the TimelineLayout returned, NoLayout before the call
    pc,              \* "input" while the arguments are assembled, "done" after the call
    text,            \* clampText: the input string
    maxChars,        \* clampText: the maxChars argument
    once,            \* clampText(text, maxChars), NoText before the call
    twice,           \* clampText(once, maxChars), NoText before the call
    labelArg,        \* compactReleaseLabel: the input label
    compacted,       \* compactReleaseLabel(labelArg), NoText before the call
    stageArg,        \* stageTone: the input stage
    tone,            \* stageTone(stageArg), NoTone before the call
    failure,         \* what getRoadmapData throws in a render, NoFailure if it returns
    page,            \* what Home returned, NoView before the render
    svg,             \* what GET returned, NoView before the request
    experimentPages, \* getRoadmapData: the pages the experiments query returned
    releasePages,    \* getRoadmapData: the pages the releases query returned
    roadmap,         \* the RoadmapData returned, NoData before the call
    cursor,          \* querySourcePaginated: let cursor
    hasMore,         \* querySourcePaginated: let hasMore
    endpointIndex,   \* querySourcePaginated: let endpointIndex
    selectedEndpoint, \* querySourcePaginated: let selectedEndpoint
    results,         \* querySourcePaginated: const results
    tryIndex,        \* querySourcePaginated: the i of the for loop over endpoints
    requests,        \* every fetch of the call so far, with the answer it got
    queryError       \* the Error the call threw, NoError if none

vars == <<experiments, releases, windowStartIso, now, timeline, pc,
          text, maxChars, once, twice, labelArg, compacted,
          stageArg, tone, failure, page, svg,
          experimentPages, releasePages, roadmap,
          cursor, hasMore, endpointIndex, selectedEndpoint, results, tryIndex,
          requests, queryError>>

layoutVars == <<experiments, releases, windowStartIso, now, timeline, pc>>
textVars == <<text, maxChars, once, twice>>
labelVars == <<labelArg, compacted>>
toneVars == <<stageArg, tone>>
renderVars == <<failure, page, svg>>
dataVars == <<experimentPages, releasePages, roadmap>>
queryVars == <<cursor, hasMore, endpointIndex, selectedEndpoint, results, tryIndex,
               requests, queryError>>

----------------------------------------------------------------------------
(* Program constants, timeline.ts lines 3-12.                              *)

DAY_WIDTH == 34
EXPERIMENT_ROW_HEIGHT == 40
EXPERIMENT_BAR_HEIGHT == 30
RELEASE_LANE_HEIGHT == 28
HEADER_HEIGHT == 74
EXPERIMENT_BAND_TOP == 18
RELEASE_BAND_GAP == 44
RELEASE_BAND_EXTRA_HEIGHT == 50
BODY_BOTTOM_PADDING == 24

\* 24 * 60 * 60 * 1000, the literal of addUtcDays and diffDays
MsPerDay == 86400000

\* the literals of the release loop of layoutTimeline
LABEL_MIN_WIDTH == 92
LABEL_MAX_WIDTH == 240
LABEL_CHAR_WIDTH == 7
LABEL_PADDING == 44
LANE_GUTTER == 12
CANVAS_LABEL_MARGIN == 20

----------------------------------------------------------------------------
(* Arithmetic of the JavaScript built-ins the code uses.                   *)

Max(a, b) == IF a >= b THEN a ELSE b
Min(a, b) == IF a <= b THEN a ELSE b

\* Math.round(n / d) for an integer n and d > 0: the nearest integer, a tie
\* going up (towards +infinity).
RoundDiv(n, d) == (2 * n + d) \div (2 * d)

\* Math.floor(n / d) for d > 0
FloorDiv(n, d) == n \div d

----------------------------------------------------------------------------
(* Date utilities.                                                         *)

ModelEpochIso == <<2024, 1, 30>>

\* Days from 1970-01-01 to the civil date y-m-d of the proleptic Gregorian
\* calendar, which is what new Date("y-m-dT00:00:00.000Z") evaluates.
DaysFromCivil(y, m, d) ==
    LET yy  == IF m <= 2 THEN y - 1 ELSE y
        era == yy \div 400
        yoe == yy - era * 400
        mp  == (m + 9) % 12
        doy == (153 * mp + 2) \div 5 + d - 1
        doe == yoe * 365 + yoe \div 4 - yoe \div 100 + doy
    IN  era * 146097 + doe - 719468

EpochDay == DaysFromCivil(ModelEpochIso[1], ModelEpochIso[2], ModelEpochIso[3])

\* utcDate(isoDate): the Date of isoDate at 00:00 UTC
utcDate(isoDate) ==
    (DaysFromCivil(isoDate[1], isoDate[2], isoDate[3]) - EpochDay) * MsPerDay

\* startOfUtcDay(date): Date.UTC of the date's UTC year, month and day
startOfUtcDay(date) == (date \div MsPerDay) * MsPerDay

\* addUtcDays(date, days)
addUtcDays(date, days) == date + days * MsPerDay

\* diffDays(start, end)
diffDays(start, end) == RoundDiv(end - start, MsPerDay)

\* a.localeCompare(b) of two "YYYY-MM-DD" strings: the fields are
\* zero-padded to a fixed width, so the strings compare field by field.
localeCompare(a, b) ==
    IF a[1] # b[1] THEN (IF a[1] < b[1] THEN -1 ELSE 1)
    ELSE IF a[2] # b[2] THEN (IF a[2] < b[2] THEN -1 ELSE 1)
    ELSE IF a[3] # b[3] THEN (IF a[3] < b[3] THEN -1 ELSE 1)
    ELSE 0

\* The civil date <<y, m, d>> of the day that is days after 1970-01-01:
\* the year, month and day fields of Date.prototype.toISOString.
CivilFromDays(days) ==
    LET z   == days + 719468
        era == z \div 146097
        doe == z - era * 146097
        yoe == (doe - doe \div 1460 + doe \div 36524 - doe \div 146096) \div 365
        doy == doe - (365 * yoe + yoe \div 4 - yoe \div 100)
        mp  == (5 * doy + 2) \div 153
        d   == doy - (153 * mp + 2) \div 5 + 1
        m   == IF mp < 10 THEN mp + 3 ELSE mp - 9
        y   == yoe + era * 400 + (IF m <= 2 THEN 1 ELSE 0)
    IN  <<y, m, d>>

\* toIsoDate(date): date.toISOString().slice(0, 10), the UTC day of date
toIsoDate(date) == CivilFromDays(EpochDay + date \div MsPerDay)

\* toIsoDate(threeMonthsAgo(now)): setUTCMonth(getUTCMonth() - 3) keeps the
\* day of the month and lets a day past the end of the new month run over
\* into the next one; setUTCHours(0, 0, 0, 0) drops the time.  Computed in
\* days, the Date three months back being out of the model's integer range.
WindowStartOf(clock) ==
    LET civil  == toIsoDate(clock)
        months == civil[1] * 12 + (civil[2] - 1) - 3
    IN  CivilFromDays(DaysFromCivil(months \div 12, (months % 12) + 1, 1)
                      + civil[3] - 1)

\* parseDateString(value).  A value is absent (undefined, null or ""), a
\* "YYYY-MM-DD" date, a date-time with an offset that new Date parses to
\* an instant, or a text that new Date does not parse.
NullDate == [isNull |-> TRUE]
parseDateString(value) ==
    CASE value.form = "date" -> [isNull |-> FALSE, date |-> utcDate(value.iso)]
      [] value.form = "datetime" -> [isNull |-> FALSE, date |-> value.instant]
      [] OTHER -> NullDate

\* getDateRange(properties, "Dates"): properties is the date object of the
\* Dates property
getDateRange(properties) ==
    LET start  == parseDateString(properties.start)
        parsed == parseDateString(properties.end)
    IN  [start |-> start, end |-> IF parsed.isNull THEN start ELSE parsed]

\* the map callbacks of getRoadmapData followed by the filter of the nulls;
\* of an item, the id and the dates are kept
RECURSIVE ExperimentItems(_)
ExperimentItems(pages) ==
    IF pages = <<>>
    THEN <<>>
    ELSE LET range == getDateRange(Head(pages).dates)
         IN  IF range.start.isNull \/ range.end.isNull
             THEN ExperimentItems(Tail(pages))
             ELSE <<[id        |-> Head(pages).id,
                     startDate |-> toIsoDate(range.start.date),
                     endDate   |-> toIsoDate(range.end.date)]>>
                  \o ExperimentItems(Tail(pages))

RECURSIVE ReleaseItems(_)
ReleaseItems(pages) ==
    IF pages = <<>>
    THEN <<>>
    ELSE LET range == getDateRange(Head(pages).dates)
         IN  IF range.start.isNull
             THEN ReleaseItems(Tail(pages))
             ELSE <<[id   |-> Head(pages).id,
                     date |-> toIsoDate(range.start.date)]>>
                  \o ReleaseItems(Tail(pages))

\* getRoadmapData(), with the answers of the two queries and the value of
\* new Date() as arguments
getRoadmapData(expPages, relPages, clock) ==
    [experiments |-> ExperimentItems(expPages),
     releases    |-> ReleaseItems(relPages),
     windowStart |-> WindowStartOf(clock),
     windowEnd   |-> toIsoDate(clock)]

----------------------------------------------------------------------------
(* Text utilities.                                                         *)

Ellipsis == "..."   \* the single character U+2026

\* input.slice(0, end): a negative end counts from the end of the string
Slice0(input, end) ==
    LET n == Len(input)
        e == IF end < 0 THEN Max(n + end, 0) ELSE Min(end, n)
    IN  SubSeq(input, 1, e)

\* clampText(input, maxChars)
clampText(input, maxChars_) ==
    IF Len(input) <= maxChars_
    THEN input
    ELSE Slice0(input, maxChars_ - 1) \o <<Ellipsis>>

Digits == {"0", "1", "2", "3", "4", "5", "6", "7", "8", "9"}
DigitOrDot == Digits \cup {"."}          \* [\d.]
Whitespace == {" ", "\t", "\n", "\r"}    \* \s, over the characters of the model
LineTerminators == {"\n", "\r"}          \* what . does not match

\* the length of the longest run of characters of class cls that starts at
\* position from (1-based) of s
RECURSIVE RunLength(_, _, _)
RunLength(s, from, cls) ==
    IF from > Len(s) \/ s[from] \notin cls
    THEN 0
    ELSE 1 + RunLength(s, from + 1, cls)

\* The end (length of match[1] match[2] match[3]) of the match of
\* /^(.+?)(\s+)([\d.]+)([^\d.].*)?$/ whose group 1 has length p, 0 if the
\* pattern does not match with that group 1.  \s+ must run up to the
\* first [\d.] and [\d.]+ up to the first character outside the class, or
\* no continuation matches.
VersionMatchEnd(label, p) ==
    LET w    == RunLength(label, p + 1, Whitespace)
        v    == RunLength(label, p + w + 1, DigitOrDot)
        stop == p + w + v
    IN  IF /\ p >= 1
           /\ \A i \in 1..p : label[i] \notin LineTerminators
           /\ w >= 1
           /\ v >= 1
           /\ \A i \in (stop + 2)..Len(label) : label[i] \notin LineTerminators
        THEN stop
        ELSE 0

\* s.replace(pattern, replacement) with a string pattern: the first
\* occurrence only
ReplaceFirst(s, pattern, replacement) ==
    LET n    == Len(pattern)
        hits == {i \in 1..(Len(s) - n + 1) : SubSeq(s, i, i + n - 1) = pattern}
    IN  IF hits = {}
        THEN s
        ELSE LET i == CHOOSE h \in hits : \A g \in hits : h <= g
             IN  SubSeq(s, 1, i - 1) \o replacement \o SubSeq(s, i + n, Len(s))

\* compactReleaseLabel(label): .+? is lazy, so group 1 is the shortest that
\* lets the pattern match
compactReleaseLabel(label) ==
    LET ps    == {p \in 1..Len(label) : VersionMatchEnd(label, p) > 0}
        short == IF ps = {}
                 THEN label
                 ELSE LET p == CHOOSE q \in ps : \A r \in ps : q <= r
                      IN  SubSeq(label, 1, VersionMatchEnd(label, p))
    IN  ReplaceFirst(short, <<"B", "a", "c", "k", "e", "n", "d">>, <<"B", "E">>)

\* String.prototype.toLowerCase over the letters of the model
UpperCase == <<"A", "B", "C", "D", "E", "F", "G", "H", "I", "J", "K", "L", "M", "N", "O", "P", "Q", "R", "S", "T", "U", "V", "W", "X", "Y", "Z">>
LowerCase == <<"a", "b", "c", "d", "e", "f", "g", "h", "i", "j", "k", "l", "m", "n", "o", "p", "q", "r", "s", "t", "u", "v", "w", "x", "y", "z">>
toLowerChar(c) ==
    IF \E i \in 1..Len(UpperCase) : UpperCase[i] = c
    THEN LowerCase[CHOOSE i \in 1..Len(UpperCase) : UpperCase[i] = c]
    ELSE c
toLowerCase(s) == [i \in 1..Len(s) |-> toLowerChar(s[i])]

\* s.includes(pattern)
includes(s, pattern) ==
    \E i \in 1..(Len(s) - Len(pattern) + 1) :
        SubSeq(s, i, i + Len(pattern) - 1) = pattern

RunningKeywords == { <<"r", "u", "n", "n", "i", "n", "g">>,
                     <<"a", "c", "t", "i", "v", "e">>,
                     <<"e", "x", "p", "l", "o", "r", "i", "n", "g">> }
WinnerKeywords == { <<"w", "i", "n", "n", "e", "r">>,
                    <<"r", "o", "l", "l", "o", "u", "t">>,
                    <<"s", "h", "i", "p", "p", "e", "d">> }
EndedKeywords == { <<"e", "n", "d", "e", "d">>,
                   <<"s", "t", "o", "p">>,
                   <<"b", "a", "c", "k", "l", "o", "g">> }

\* stageTone with the ended keywords tried before the winner keywords
stageTone_EndedFirst(stage) ==
    LET lower == toLowerCase(stage)
    IN  IF \E k \in RunningKeywords : includes(lower, k) THEN "running"
        ELSE IF \E k \in EndedKeywords : includes(lower, k) THEN "ended"
        ELSE IF \E k \in WinnerKeywords : includes(lower, k) THEN "winner"
        ELSE "neutral"

\* stageTone(stage)
stageTone(stage) ==
    LET lower == toLowerCase(stage)
    IN  IF \E k \in RunningKeywords : includes(lower, k) THEN "running"
        ELSE IF \E k \in WinnerKeywords : includes(lower, k) THEN "winner"
        ELSE IF \E k \in EndedKeywords : includes(lower, k) THEN "ended"
        ELSE "neutral"

----------------------------------------------------------------------------
(* layoutTimeline.                                                         *)

\* an unstable insertion: the item goes before the items it compares equal to
InsertByKey_BeforeEqual(sorted, item, key) ==
    LET n == Cardinality({i \in 1..Len(sorted) :
                             localeCompare(sorted[i][key], item[key]) < 0})
    IN  SubSeq(sorted, 1, n) \o <<item>> \o SubSeq(sorted, n + 1, Len(sorted))

\* [...items].sort((a, b) => a[key].localeCompare(b[key])): Array.prototype.sort
\* is stable, so an item goes after every item that does not compare greater.
RECURSIVE InsertByKey(_, _, _)
InsertByKey(sorted, item, key) ==
    IF sorted = <<>>
    THEN <<item>>
    ELSE IF localeCompare(Head(sorted)[key], item[key]) <= 0
         THEN <<Head(sorted)>> \o InsertByKey(Tail(sorted), item, key)
         ELSE <<item>> \o sorted

\* no sort: the items in their input order
SortByKey_Unsorted(items, key) == items

RECURSIVE SortByKey(_, _)
SortByKey(items, key) ==
    IF items = <<>>
    THEN <<>>
    ELSE InsertByKey(SortByKey(SubSeq(items, 1, Len(items) - 1), key),
                     items[Len(items)], key)

\* allEndDates.reduce((latest, candidate) => candidate > latest ? candidate
\* : latest, today) over [today, ...experiment end dates, ...release dates]
RECURSIVE ReduceLatest(_, _)
ReduceLatest(candidates, latest) ==
    IF candidates = <<>>
    THEN latest
    ELSE ReduceLatest(Tail(candidates),
                      IF Head(candidates) > latest THEN Head(candidates) ELSE latest)

\* WindowEnd with the experiments' end dates left out of allEndDates
WindowEnd_NoExperiments(exps, rels, today) ==
    ReduceLatest(<<today>> \o [i \in 1..Len(rels) |-> utcDate(rels[i].date)], today)

WindowEnd(exps, rels, today) ==
    LET allEndDates == <<today>>
                       \o [i \in 1..Len(exps) |-> utcDate(exps[i].endDate)]
                       \o [i \in 1..Len(rels) |-> utcDate(rels[i].date)]
    IN  ReduceLatest(allEndDates, today)

\* TotalDays counting the days between the two dates, not the days of the
\* inclusive range
TotalDays_Exclusive(startDate, endDate) == Max(1, diffDays(startDate, endDate))

\* Math.max(1, diffDays(startDate, endDate) + 1)
TotalDays(startDate, endDate) == Max(1, diffDays(startDate, endDate) + 1)

\* DayIndex without the clamp at 0
DayIndex_Unclamped(startDate, iso) == diffDays(startDate, utcDate(iso))

\* Math.max(0, diffDays(startDate, utcDate(iso))): startIndex and dayIndex
DayIndex(startDate, iso) == Max(0, diffDays(startDate, utcDate(iso)))

\* Math.max(startIndex, diffDays(startDate, utcDate(item.endDate)))
EndIndex(startDate, startIndex, iso) ==
    Max(startIndex, diffDays(startDate, utcDate(iso)))

\* the index (0-based) of the least element of the set of 1-based positions,
\* -1 for none: what Array.prototype.findIndex returns
FirstIndex(hits) ==
    IF hits = {}
    THEN -1
    ELSE (CHOOSE h \in hits : \A g \in hits : h <= g) - 1

\* the last element of the set of 1-based positions, as a 0-based index
LastIndex(hits) ==
    IF hits = {}
    THEN -1
    ELSE (CHOOSE h \in hits : \A g \in hits : h >= g) - 1

\* FindFreeRow taking a row whose last experiment ends on the start day
FindFreeRow_Touching(experimentRowEnds, startIndex) ==
    FirstIndex({i \in 1..Len(experimentRowEnds) : startIndex >= experimentRowEnds[i]})

\* FindFreeRow taking the last free row, not the first
FindFreeRow_LastFit(experimentRowEnds, startIndex) ==
    LastIndex({i \in 1..Len(experimentRowEnds) : startIndex > experimentRowEnds[i]})

\* FindFreeLane without the gutter
FindFreeLane_NoGutter(laneOccupancy, x) ==
    FirstIndex({i \in 1..Len(laneOccupancy) : x > laneOccupancy[i]})

\* FindFreeLane taking the last free lane, not the first
FindFreeLane_LastFit(laneOccupancy, x) ==
    LastIndex({i \in 1..Len(laneOccupancy) : x > laneOccupancy[i] + LANE_GUTTER})

\* experimentRowEnds.findIndex((rowEnd) => startIndex > rowEnd)
FindFreeRow(experimentRowEnds, startIndex) ==
    FirstIndex({i \in 1..Len(experimentRowEnds) : startIndex > experimentRowEnds[i]})

\* laneOccupancy.findIndex((occupiedUntil) => x > occupiedUntil + 12)
FindFreeLane(laneOccupancy, x) ==
    FirstIndex({i \in 1..Len(laneOccupancy) : x > laneOccupancy[i] + LANE_GUTTER})

\* the map callback over sortedExperiments, with experimentRowEnds as it
\* stands before each item; the result holds the positioned experiments and
\* the final experimentRowEnds
RECURSIVE PlaceExperiments(_, _, _, _)
PlaceExperiments(items, startDate, experimentRowEnds, positioned) ==
    IF items = <<>>
    THEN [positioned |-> positioned, experimentRowEnds |-> experimentRowEnds]
    ELSE LET item       == Head(items)
             startIndex == DayIndex(startDate, item.startDate)
             endIndex   == EndIndex(startDate, startIndex, item.endDate)
             found      == FindFreeRow(experimentRowEnds, startIndex)
             row        == IF found < 0 THEN Len(experimentRowEnds) ELSE found
             rowEnds    == IF found < 0
                           THEN Append(experimentRowEnds, endIndex)
                           ELSE [experimentRowEnds EXCEPT ![row + 1] = endIndex]
         IN  PlaceExperiments(Tail(items), startDate, rowEnds,
                 Append(positioned,
                        [row |-> row, startIndex |-> startIndex,
                         endIndex |-> endIndex] @@ item))

\* Math.max(92, Math.min(240, label.length * 7 + 44))
LabelWidth(label) ==
    Max(LABEL_MIN_WIDTH,
        Min(LABEL_MAX_WIDTH, Len(label) * LABEL_CHAR_WIDTH + LABEL_PADDING))

\* dayIndex * DAY_WIDTH + Math.floor(DAY_WIDTH / 2)
AnchorX(dayIndex) == dayIndex * DAY_WIDTH + FloorDiv(DAY_WIDTH, 2)

\* the map callback over sortedReleases, with laneOccupancy and
\* maxReleaseLabelEnd as they stand before each item
RECURSIVE PlaceReleases(_, _, _, _, _)
PlaceReleases(items, startDate, laneOccupancy, maxReleaseLabelEnd, positioned) ==
    IF items = <<>>
    THEN [positioned |-> positioned, laneOccupancy |-> laneOccupancy,
          maxReleaseLabelEnd |-> maxReleaseLabelEnd]
    ELSE LET item       == Head(items)
             dayIndex   == DayIndex(startDate, item.date)
             x          == AnchorX(dayIndex)
             label      == compactReleaseLabel(item.name)
             labelWidth == LabelWidth(label)
             found      == FindFreeLane(laneOccupancy, x)
             lane       == IF found < 0 THEN Len(laneOccupancy) ELSE found
             occupancy  == IF found < 0
                           THEN Append(laneOccupancy, x + labelWidth)
                           ELSE [laneOccupancy EXCEPT ![lane + 1] = x + labelWidth]
         IN  PlaceReleases(Tail(items), startDate, occupancy,
                 Max(maxReleaseLabelEnd, x + labelWidth + CANVAS_LABEL_MARGIN),
                 Append(positioned,
                        [lane |-> lane, dayIndex |-> dayIndex,
                         labelEnd |-> x + labelWidth] @@ item))

\* CountAtLeastOne without the floor of 1
CountAtLeastOne_Raw(used) == used

\* CanvasWidth that ignores the release labels
CanvasWidth_DaysOnly(totalDays, maxReleaseLabelEnd) == totalDays * DAY_WIDTH

\* experimentRows: Math.max(1, experimentRowEnds.length), and releaseLanes
\* likewise
CountAtLeastOne(used) == Max(1, used)

\* canvasWidth: Math.max(totalDays * DAY_WIDTH, maxReleaseLabelEnd)
CanvasWidth(totalDays, maxReleaseLabelEnd) ==
    Max(totalDays * DAY_WIDTH, maxReleaseLabelEnd)

\* layoutTimeline(experiments, releases, windowStartIso), with the value of
\* new Date() as the argument clock
layoutTimeline(exps, rels, windowStart, clock) ==
    LET startDate == utcDate(windowStart)
        today     == startOfUtcDay(clock)
        endDate   == WindowEnd(exps, rels, today)
        totalDays == TotalDays(startDate, endDate)
        placedE   == PlaceExperiments(SortByKey(exps, "startDate"), startDate,
                                      <<>>, <<>>)
        placedR   == PlaceReleases(SortByKey(rels, "date"), startDate, <<>>,
                                   totalDays * DAY_WIDTH, <<>>)
    IN  [startDate             |-> startDate,
         endDate               |-> endDate,
         totalDays             |-> totalDays,
         positionedExperiments |-> placedE.positioned,
         positionedReleases    |-> placedR.positioned,
         experimentRows        |-> CountAtLeastOne(Len(placedE.experimentRowEnds)),
         releaseLanes          |-> CountAtLeastOne(Len(placedR.laneOccupancy)),
         canvasWidth           |-> CanvasWidth(totalDays, placedR.maxReleaseLabelEnd)]

\* getBandLayout with the height of a bar taken for the height of a row
getBandLayout_BarHeight(layout) ==
    LET experimentBandHeight == layout.experimentRows * EXPERIMENT_BAR_HEIGHT + 10
        releaseBandTop       == EXPERIMENT_BAND_TOP + experimentBandHeight
                                + RELEASE_BAND_GAP
        releaseBandHeight    == layout.releaseLanes * RELEASE_LANE_HEIGHT
                                + RELEASE_BAND_EXTRA_HEIGHT
        bodyHeight           == releaseBandTop + releaseBandHeight
                                + BODY_BOTTOM_PADDING
    IN  [experimentBandTop    |-> EXPERIMENT_BAND_TOP,
         experimentBandHeight |-> experimentBandHeight,
         releaseBandTop       |-> releaseBandTop,
         releaseBandHeight    |-> releaseBandHeight,
         bodyHeight           |-> bodyHeight]

\* getBandLayout(timeline)
getBandLayout(layout) ==
    LET experimentBandHeight == layout.experimentRows * EXPERIMENT_ROW_HEIGHT + 10
        releaseBandTop       == EXPERIMENT_BAND_TOP + experimentBandHeight
                                + RELEASE_BAND_GAP
        releaseBandHeight    == layout.releaseLanes * RELEASE_LANE_HEIGHT
                                + RELEASE_BAND_EXTRA_HEIGHT
        bodyHeight           == releaseBandTop + releaseBandHeight
                                + BODY_BOTTOM_PADDING
    IN  [experimentBandTop    |-> EXPERIMENT_BAND_TOP,
         experimentBandHeight |-> experimentBandHeight,
         releaseBandTop       |-> releaseBandTop,
         releaseBandHeight    |-> releaseBandHeight,
         bodyHeight           |-> bodyHeight]

----------------------------------------------------------------------------
(* querySourcePaginated.                                                   *)

\* const endpoints, each named by the part of its URL that differs
endpoints == <<"data_sources", "databases">>

\* the next page starts over at the first endpoint
indexOf_Reset(endpoint) == 0

\* endpoints.indexOf(endpoint)
indexOf(endpoint) == FirstIndex({k \in 1..Len(endpoints) : endpoints[k] = endpoint})

\* the values of a cursor that is no cursor string of the server
Undefined == "undefined"
Null == "null"
EmptyString == ""

\* response.ok
ResponseOk(response) == response.status >= 200 /\ response.status <= 299

\* the start_cursor of the request body: ...(cursor ? { start_cursor: cursor }
\* : {}), an empty string being falsy like undefined
StartCursor(cursor_) ==
    IF cursor_ = Undefined \/ cursor_ = EmptyString THEN Undefined ELSE cursor_

\* (responseJson.next_cursor as string | undefined) ?? undefined
NextCursorOf(responseJson) ==
    IF responseJson.next_cursor = Null \/ responseJson.next_cursor = Undefined
    THEN Undefined
    ELSE responseJson.next_cursor

\* the Error of the throw inside the for loop, and of the throw after it
QueryFailed(status) == [message |-> "Notion query failed", status |-> status]
UnableToQuery == [message |-> "Unable to query Notion source", status |-> 0]
MissingToken == [message |-> "Missing Notion token", status |-> 0]
NoError == [message |-> "none", status |-> 0]

----------------------------------------------------------------------------
(* The adapters: Home (the interactive page) and GET (the vector route).   *)

NaN == "NaN"
InvalidDate == "Invalid Date"

\* layoutTimeline([], [], ""): utcDate("") is an invalid Date, so every
\* number computed from startDate is NaN (Math.max and Math.round keep NaN)
layoutTimelineNoWindow(clock) ==
    [startDate             |-> InvalidDate,
     endDate               |-> startOfUtcDay(clock),
     totalDays             |-> NaN,
     positionedExperiments |-> <<>>,
     positionedReleases    |-> <<>>,
     experimentRows        |-> CountAtLeastOne(0),
     releaseLanes          |-> CountAtLeastOne(0),
     canvasWidth           |-> NaN]

\* Home: left, width and top of the bar of a positioned experiment
PageBar(exp, bands) ==
    [left  |-> exp.startIndex * DAY_WIDTH + 2,
     width |-> Max(DAY_WIDTH, (exp.endIndex - exp.startIndex + 1) * DAY_WIDTH - 4),
     top   |-> bands.experimentBandTop + exp.row * EXPERIMENT_ROW_HEIGHT]

\* Home: x and y of the marker of a positioned release
PageMarker(release, bands) ==
    [x |-> release.dayIndex * DAY_WIDTH + FloorDiv(DAY_WIDTH, 2),
     y |-> bands.releaseBandTop + release.lane * RELEASE_LANE_HEIGHT]

\* resolveVariant(raw).fontScale, in hundredths
FontScale100(variant) ==
    CASE variant = "small" -> 74
      [] variant = "tiny" -> 60
      [] OTHER -> 100

\* GET without HEADER_HEIGHT in the y of a bar
SvgBar_NoHeader(exp, bands) ==
    [x     |-> exp.startIndex * DAY_WIDTH + 2,
     y     |-> bands.experimentBandTop + exp.row * EXPERIMENT_ROW_HEIGHT,
     width |-> Max(DAY_WIDTH, (exp.endIndex - exp.startIndex + 1) * DAY_WIDTH - 4)]

\* GET: x, y and width of the rect of a positioned experiment
SvgBar(exp, bands) ==
    [x     |-> exp.startIndex * DAY_WIDTH + 2,
     y     |-> HEADER_HEIGHT + bands.experimentBandTop
               + exp.row * EXPERIMENT_ROW_HEIGHT,
     width |-> Max(DAY_WIDTH, (exp.endIndex - exp.startIndex + 1) * DAY_WIDTH - 4)]

\* GET: Math.max(88, Math.min(280, fullLabel.length *
\* Math.max(4.25, 7 * settings.fontScale) + 24)), in hundredths of a pixel
SvgLabelWidth100(fullLabelLength, fontScale100) ==
    Max(8800, Min(28000, fullLabelLength * Max(425, 7 * fontScale100) + 2400))

\* GET: the marker of a positioned release and its label rect, which
\* starts at x + 10; fullLabel is the compacted name and the platform tag
SvgMarker(release, bands, fontScale100) ==
    LET x   == release.dayIndex * DAY_WIDTH + FloorDiv(DAY_WIDTH, 2)
        tag == IF release.platform # <<>>
               THEN <<" ">> \o release.platform
               ELSE <<>>
        fullLabel == compactReleaseLabel(release.name) \o tag
    IN  [x             |-> x,
         y             |-> HEADER_HEIGHT + bands.releaseBandTop
                           + release.lane * RELEASE_LANE_HEIGHT,
         labelX        |-> x + 10,
         labelWidth100 |-> SvgLabelWidth100(Len(fullLabel), fontScale100)]

\* the today line of an adapter: today is read from the clock after
\* layoutTimeline has returned
TodayLine(layout, clock2) ==
    LET today      == startOfUtcDay(clock2)
        todayIndex == diffDays(layout.startDate, today)
    IN  [todayIndex |-> todayIndex,
         hasToday   |-> todayIndex >= 0 /\ todayIndex < layout.totalDays]

\* Home from the today line on: what it draws from the layout
HomeTimeline(layout, clock2) ==
    LET line  == TodayLine(layout, clock2)
        bands == getBandLayout(layout)
    IN  [kind         |-> "timeline",
         layoutCalled |-> TRUE,
         timeline     |-> layout,
         todayIndex   |-> line.todayIndex,
         hasToday     |-> line.hasToday,
         bars         |-> [i \in 1..Len(layout.positionedExperiments) |->
                              PageBar(layout.positionedExperiments[i], bands)],
         markers      |-> [i \in 1..Len(layout.positionedReleases) |->
                              PageMarker(layout.positionedReleases[i], bands)]]

\* the body of Home after getRoadmapData returned or threw: error is the
\* message of a thrown Error, a fixed text for any other thrown value, and
\* "" when nothing was thrown; if (error) tests it for being non-empty.
\* After a throw the lists are still [] and windowStart is still "".
HomeView(fail, exps, rels, windowStart, clock, clock2) ==
    LET error == IF ~fail.thrown THEN ""
                 ELSE IF fail.isError THEN fail.message
                 ELSE "Unknown error loading Notion data."
    IN  IF error # ""
        THEN [kind |-> "errorPanel", layoutCalled |-> FALSE, message |-> error]
        ELSE IF fail.thrown
        THEN [kind         |-> "timeline",
              layoutCalled |-> TRUE,
              timeline     |-> layoutTimelineNoWindow(clock),
              todayIndex   |-> NaN,
              hasToday     |-> FALSE,
              bars         |-> <<>>,
              markers      |-> <<>>]
        ELSE HomeTimeline(layoutTimeline(exps, rels, windowStart, clock), clock2)

\* GET from getBandLayout on: what it draws from the layout
GETSvg(variant, layout, clock2) ==
    LET bands == getBandLayout(layout)
        line  == TodayLine(layout, clock2)
    IN  [kind         |-> "svg",
         status       |-> 200,
         layoutCalled |-> TRUE,
         variant      |-> variant,
         timeline     |-> layout,
         totalWidth   |-> layout.canvasWidth,
         todayIndex   |-> line.todayIndex,
         hasToday     |-> line.hasToday,
         bars         |-> [i \in 1..Len(layout.positionedExperiments) |->
                              SvgBar(layout.positionedExperiments[i], bands)],
         markers      |-> [i \in 1..Len(layout.positionedReleases) |->
                              SvgMarker(layout.positionedReleases[i], bands,
                                        FontScale100(variant))]]

\* the body of GET: everything is inside the try, and the catch answers
\* with errorSvg(message) and status 500
GETResponse(variant, fail, exps, rels, windowStart, clock, clock2) ==
    IF fail.thrown
    THEN [kind         |-> "errorSvg",
          status       |-> 500,
          layoutCalled |-> FALSE,
          message      |-> IF fail.isError THEN fail.message ELSE "Unknown error"]
    ELSE GETSvg(variant, layoutTimeline(exps, rels, windowStart, clock), clock2)

----------------------------------------------------------------------------
(* The inputs of the model.                                                *)

\* the most items (experiments plus releases) of one call
MaxItems == 3

\* the longest input of clampText, and the range of its maxChars
MaxTextLen == 3
MaxClamp == 4
MinClamp == 0 - 2
MaxLabelTokens == 5
MaxStageTokens == 2

\* the most items (experiments plus releases) the data source returns to a render
MaxRenderItems == 2

\* the most pages the two queries of getRoadmapData return together
MaxPages == 2

\* the most fetches of one querySourcePaginated call
MaxFetches == 4

Jan30 == <<2024, 1, 30>>
Jan31 == <<2024, 1, 31>>
Feb01 == <<2024, 2, 1>>
Feb02 == <<2024, 2, 2>>
Feb03 == <<2024, 2, 3>>

\* the dates an experiment starts and ends on; every pair is taken, so an
\* end before the start too
ExperimentDates == {Jan30, Jan31, Feb01}

\* the dates of a release: two adjacent days, and one far enough from them
\* for a label to end before it
ReleaseDates == {Jan30, Jan31, Feb03}

\* "Backend 2 rc" (label "BE 2", the least width) and "Android 12.1" (width 128)
ReleaseNames ==
    { <<"B", "a", "c", "k", "e", "n", "d", " ", "2", " ", "r", "c">>,
      <<"A", "n", "d", "r", "o", "i", "d", " ", "1", "2", ".", "1">> }

\* the window start: on the first item date, and after some of them
WindowStarts == {Jan30, Feb01}

\* the instants new Date() returns: 2024-01-31T09:30:00.000Z and
\* 2024-02-02T23:59:59.999Z
Clock == { utcDate(Jan31) + 34200000, utcDate(Feb02) + (MsPerDay - 1) }

NoLayout == [totalDays |-> 0]
NoText == <<"none">>

TextChars == {"a", "b"}
Texts == UNION { [1..n -> TextChars] : n \in 0..MaxTextLen }

\* the words a release label is made of
BackendWord == <<"B", "a", "c", "k", "e", "n", "d">>
LabelTokens ==
    { <<"G", "r", "o", "w", "t", "h", " ">>,
      BackendWord,
      <<" ">>,
      <<"2", ".", "3", ".", "1">>,
      <<" ", "r", "o", "l", "l", "o", "u", "t">> }

RECURSIVE Flatten(_)
Flatten(words) ==
    IF words = <<>> THEN <<>> ELSE Head(words) \o Flatten(Tail(words))

Labels ==
    { Flatten(ws) : ws \in UNION { [1..n -> LabelTokens] : n \in 0..MaxLabelTokens } }

\* no compactReleaseLabel call is in progress
LabelIdle ==
    /\ labelArg = <<>>
    /\ compacted = NoText

\* the words a stage is made of: every keyword in some letter case, a
\* separator and a word that is no keyword
StageTokens ==
    { <<"R", "u", "n", "n", "i", "n", "g">>, <<"A", "C", "T", "I", "V", "E">>,
      <<"e", "x", "p", "l", "o", "r", "i", "n", "g">>, <<"W", "i", "n", "n", "e", "r">>,
      <<"R", "O", "L", "L", "O", "U", "T">>, <<"S", "h", "i", "p", "p", "e", "d">>,
      <<"E", "n", "d", "e", "d">>, <<"S", "T", "O", "P">>,
      <<"b", "a", "c", "k", "L", "o", "g">>, <<" ">>, <<"I", "d", "e", "a">> }

Stages ==
    { Flatten(ws) : ws \in UNION { [1..n -> StageTokens] : n \in 0..MaxStageTokens } }

NoTone == "none"

\* no stageTone call is in progress
ToneIdle ==
    /\ stageArg = <<>>
    /\ tone = NoTone

\* the data of a render: experiments on two adjacent days, releases next
\* to them and on the last day, with and without a platform
RenderExperimentDates == {Jan30, Jan31}
RenderReleaseDates == {Jan31, Feb03}
Platforms == { <<>>, <<"A", "n", "d", "r", "o", "i", "d">> }
Variants == {"default", "small", "tiny"}

\* what getRoadmapData throws: an Error with a message, an Error with an
\* empty message, a value that is no Error
NoFailure == [thrown |-> FALSE]
Thrown ==
    { [thrown |-> TRUE, isError |-> TRUE, message |-> "Missing NOTION_API_TOKEN"],
      [thrown |-> TRUE, isError |-> TRUE, message |-> ""],
      [thrown |-> TRUE, isError |-> FALSE, message |-> "timeout"] }

\* the instants a later new Date() of the same render returns: the same
\* millisecond, or the next
LaterReads(clock) == {clock, clock + 1}

NoView == [kind |-> "none"]

\* no render is in progress
RenderIdle ==
    /\ failure = NoFailure
    /\ page = NoView
    /\ svg = NoView

\* what a date of a Notion page can be: absent, a plain date, the date-time
\* 2024-01-30T21:30:00-05:00 (02:30 UTC of the next day), a text that is not
\* a date
Absent == [form |-> "absent"]
DateValues ==
    { Absent,
      [form |-> "date", iso |-> Jan30],
      [form |-> "date", iso |-> Jan31],
      [form |-> "datetime", instant |-> utcDate(Jan31) + 9000000],
      [form |-> "text"] }

NoData == [windowEnd |-> <<>>]

\* no getRoadmapData call is in progress
DataIdle ==
    /\ experimentPages = <<>>
    /\ releasePages = <<>>
    /\ roadmap = NoData

\* the Notion server: the statuses it answers with, the cursor strings it
\* hands out (a new one with every answer), and the page it keeps under a
\* start cursor, which is one NotionPage named after that cursor
Statuses == {200, 400, 404, 500}
CursorNames == <<"c1", "c2", "c3", "c4", "c5", "c6">>
PageResults(startCursor) == <<[id |-> startCursor]>>

\* the answers to the n-th fetch of a call, which asks for startCursor: a
\* last page, a page followed by more under a new cursor, a page that says
\* has_more without a usable next_cursor, or an error status
Responses(startCursor, n) ==
    { [status |-> 200, results |-> PageResults(startCursor),
       has_more |-> FALSE, next_cursor |-> Null] }
    \cup { [status |-> 200, results |-> PageResults(startCursor),
            has_more |-> TRUE, next_cursor |-> c] :
            c \in {CursorNames[n], Null, EmptyString} }
    \cup { [status |-> s, results |-> <<>>, has_more |-> FALSE, next_cursor |-> Null] :
            s \in Statuses \ {200} }

\* the locals of querySourcePaginated as declared, before the first fetch
QueryIdle ==
    /\ cursor = Undefined
    /\ hasMore = TRUE
    /\ endpointIndex = 0
    /\ selectedEndpoint = endpoints[1]
    /\ results = <<>>
    /\ tryIndex = 0
    /\ requests = <<>>
    /\ queryError = NoError

----------------------------------------------------------------------------
(* The state machine of one layoutTimeline call.                           *)

Init ==
    /\ experiments = <<>>
    /\ releases = <<>>
    /\ windowStartIso \in WindowStarts
    /\ now \in Clock
    /\ timeline = NoLayout
    /\ pc = "input"
    /\ text = <<>>
    /\ maxChars = 0
    /\ once = NoText
    /\ twice = NoText
    /\ LabelIdle
    /\ ToneIdle
    /\ RenderIdle
    /\ DataIdle
    /\ QueryIdle

\* the caller has one more experiment; its id is its place in the list
AddExperiment ==
    /\ pc = "input"
    /\ Len(experiments) + Len(releases) < MaxItems
    /\ \E s \in ExperimentDates, e \in ExperimentDates :
          experiments' = Append(experiments,
              [id |-> Len(experiments) + 1, startDate |-> s, endDate |-> e])
    /\ UNCHANGED <<releases, windowStartIso, now, timeline, pc>>
    /\ UNCHANGED textVars
    /\ UNCHANGED labelVars
    /\ UNCHANGED toneVars
    /\ UNCHANGED renderVars
    /\ UNCHANGED dataVars
    /\ UNCHANGED queryVars

\* the caller has one more release
AddRelease ==
    /\ pc = "input"
    /\ Len(experiments) + Len(releases) < MaxItems
    /\ \E d \in ReleaseDates, n \in ReleaseNames :
          releases' = Append(releases,
              [id |-> Len(releases) + 1, name |-> n, date |-> d])
    /\ UNCHANGED <<experiments, windowStartIso, now, timeline, pc>>
    /\ UNCHANGED textVars
    /\ UNCHANGED labelVars
    /\ UNCHANGED toneVars
    /\ UNCHANGED renderVars
    /\ UNCHANGED dataVars
    /\ UNCHANGED queryVars

\* the call layoutTimeline(experiments, releases, windowStartIso)
Layout ==
    /\ pc = "input"
    /\ timeline' = layoutTimeline(experiments, releases, windowStartIso, now)
    /\ pc' = "done"
    /\ UNCHANGED <<experiments, releases, windowStartIso, now>>
    /\ UNCHANGED textVars
    /\ UNCHANGED labelVars
    /\ UNCHANGED toneVars
    /\ UNCHANGED renderVars
    /\ UNCHANGED dataVars
    /\ UNCHANGED queryVars

Next == AddExperiment \/ AddRelease \/ Layout

Spec == Init /\ [][Next]_vars

----------------------------------------------------------------------------
(* The state machine of clampText applied twice.                           *)

InitClamp ==
    /\ experiments = <<>>
    /\ releases = <<>>
    /\ windowStartIso = Jan30
    /\ now = 0
    /\ timeline = NoLayout
    /\ pc = "text"
    /\ text \in Texts
    /\ maxChars \in MinClamp..MaxClamp
    /\ once = NoText
    /\ twice = NoText
    /\ LabelIdle
    /\ ToneIdle
    /\ RenderIdle
    /\ DataIdle
    /\ QueryIdle

ClampOnce ==
    /\ once = NoText
    /\ once' = clampText(text, maxChars)
    /\ UNCHANGED <<text, maxChars, twice>>
    /\ UNCHANGED layoutVars
    /\ UNCHANGED labelVars
    /\ UNCHANGED toneVars
    /\ UNCHANGED renderVars
    /\ UNCHANGED dataVars
    /\ UNCHANGED queryVars

ClampTwice ==
    /\ once # NoText
    /\ twice = NoText
    /\ twice' = clampText(once, maxChars)
    /\ UNCHANGED <<text, maxChars, once>>
    /\ UNCHANGED layoutVars
    /\ UNCHANGED labelVars
    /\ UNCHANGED toneVars
    /\ UNCHANGED renderVars
    /\ UNCHANGED dataVars
    /\ UNCHANGED queryVars

NextClamp == ClampOnce \/ ClampTwice

SpecClamp == InitClamp /\ [][NextClamp]_vars

----------------------------------------------------------------------------
(* The state machine of one compactReleaseLabel call.                      *)

InitLabel ==
    /\ experiments = <<>>
    /\ releases = <<>>
    /\ windowStartIso = Jan30
    /\ now = 0
    /\ timeline = NoLayout
    /\ pc = "label"
    /\ text = <<>>
    /\ maxChars = 0
    /\ once = NoText
    /\ twice = NoText
    /\ labelArg \in Labels
    /\ compacted = NoText
    /\ ToneIdle
    /\ RenderIdle
    /\ DataIdle
    /\ QueryIdle

Compact ==
    /\ compacted = NoText
    /\ compacted' = compactReleaseLabel(labelArg)
    /\ UNCHANGED labelArg
    /\ UNCHANGED layoutVars
    /\ UNCHANGED textVars
    /\ UNCHANGED toneVars
    /\ UNCHANGED renderVars
    /\ UNCHANGED dataVars
    /\ UNCHANGED queryVars

NextLabel == Compact

SpecLabel == InitLabel /\ [][NextLabel]_vars

----------------------------------------------------------------------------
(* The state machine of one stageTone call.                                *)

InitTone ==
    /\ experiments = <<>>
    /\ releases = <<>>
    /\ windowStartIso = Jan30
    /\ now = 0
    /\ timeline = NoLayout
    /\ pc = "stage"
    /\ text = <<>>
    /\ maxChars = 0
    /\ once = NoText
    /\ twice = NoText
    /\ LabelIdle
    /\ stageArg \in Stages
    /\ tone = NoTone
    /\ RenderIdle
    /\ DataIdle
    /\ QueryIdle

Classify ==
    /\ tone = NoTone
    /\ tone' = stageTone(stageArg)
    /\ UNCHANGED stageArg
    /\ UNCHANGED layoutVars
    /\ UNCHANGED textVars
    /\ UNCHANGED labelVars
    /\ UNCHANGED renderVars
    /\ UNCHANGED dataVars
    /\ UNCHANGED queryVars

NextTone == Classify

SpecTone == InitTone /\ [][NextTone]_vars

----------------------------------------------------------------------------
(* The state machine of one render of each adapter over the same data.     *)

InitRender ==
    /\ experiments = <<>>
    /\ releases = <<>>
    /\ windowStartIso \in WindowStarts
    /\ now \in Clock
    /\ timeline = NoLayout
    /\ pc = "render"
    /\ text = <<>>
    /\ maxChars = 0
    /\ once = NoText
    /\ twice = NoText
    /\ LabelIdle
    /\ ToneIdle
    /\ failure \in {NoFailure} \cup Thrown
    /\ page = NoView
    /\ svg = NoView
    /\ DataIdle
    /\ QueryIdle

\* the data source has one more experiment; a failing getRoadmapData
\* returns none
SourceExperiment ==
    /\ ~failure.thrown
    /\ page = NoView /\ svg = NoView
    /\ Len(experiments) + Len(releases) < MaxRenderItems
    /\ \E s \in RenderExperimentDates, e \in RenderExperimentDates :
          experiments' = Append(experiments,
              [id |-> Len(experiments) + 1, startDate |-> s, endDate |-> e])
    /\ UNCHANGED <<releases, windowStartIso, now, timeline, pc>>
    /\ UNCHANGED <<failure, page, svg>>
    /\ UNCHANGED textVars
    /\ UNCHANGED labelVars
    /\ UNCHANGED toneVars
    /\ UNCHANGED dataVars
    /\ UNCHANGED queryVars

\* the data source has one more release
SourceRelease ==
    /\ ~failure.thrown
    /\ page = NoView /\ svg = NoView
    /\ Len(experiments) + Len(releases) < MaxRenderItems
    /\ \E d \in RenderReleaseDates, n \in ReleaseNames, p \in Platforms :
          releases' = Append(releases,
              [id |-> Len(releases) + 1, name |-> n, date |-> d, platform |-> p])
    /\ UNCHANGED <<experiments, windowStartIso, now, timeline, pc>>
    /\ UNCHANGED <<failure, page, svg>>
    /\ UNCHANGED textVars
    /\ UNCHANGED labelVars
    /\ UNCHANGED toneVars
    /\ UNCHANGED dataVars
    /\ UNCHANGED queryVars

\* one render of the interactive page
Home ==
    /\ page = NoView
    /\ \E clock2 \in LaterReads(now) :
          page' = HomeView(failure, experiments, releases, windowStartIso,
                           now, clock2)
    /\ UNCHANGED <<failure, svg>>
    /\ UNCHANGED layoutVars
    /\ UNCHANGED textVars
    /\ UNCHANGED labelVars
    /\ UNCHANGED toneVars
    /\ UNCHANGED dataVars
    /\ UNCHANGED queryVars

\* one request to the vector route
GET ==
    /\ svg = NoView
    /\ \E variant \in Variants, clock2 \in LaterReads(now) :
          svg' = GETResponse(variant, failure, experiments, releases,
                             windowStartIso, now, clock2)
    /\ UNCHANGED <<failure, page>>
    /\ UNCHANGED layoutVars
    /\ UNCHANGED textVars
    /\ UNCHANGED labelVars
    /\ UNCHANGED toneVars
    /\ UNCHANGED dataVars
    /\ UNCHANGED queryVars

NextRender == SourceExperiment \/ SourceRelease \/ Home \/ GET

SpecRender == InitRender /\ [][NextRender]_vars

----------------------------------------------------------------------------
(* The state machine of one getRoadmapData call.                           *)

InitData ==
    /\ experiments = <<>>
    /\ releases = <<>>
    /\ windowStartIso = Jan30
    /\ now \in Clock
    /\ timeline = NoLayout
    /\ pc = "query"
    /\ text = <<>>
    /\ maxChars = 0
    /\ once = NoText
    /\ twice = NoText
    /\ LabelIdle
    /\ ToneIdle
    /\ RenderIdle
    /\ experimentPages = <<>>
    /\ releasePages = <<>>
    /\ roadmap = NoData
    /\ QueryIdle

\* the experiments query returns one more page
AnswerExperimentPage ==
    /\ pc = "query"
    /\ Len(experimentPages) + Len(releasePages) < MaxPages
    /\ \E s \in DateValues, e \in DateValues :
          experimentPages' = Append(experimentPages,
              [id |-> Len(experimentPages) + 1, dates |-> [start |-> s, end |-> e]])
    /\ UNCHANGED <<releasePages, roadmap>>
    /\ UNCHANGED layoutVars
    /\ UNCHANGED textVars
    /\ UNCHANGED labelVars
    /\ UNCHANGED toneVars
    /\ UNCHANGED renderVars
    /\ UNCHANGED queryVars

\* the releases query returns one more page; a release has no end date
AnswerReleasePage ==
    /\ pc = "query"
    /\ Len(experimentPages) + Len(releasePages) < MaxPages
    /\ \E s \in DateValues :
          releasePages' = Append(releasePages,
              [id |-> Len(releasePages) + 1, dates |-> [start |-> s, end |-> Absent]])
    /\ UNCHANGED <<experimentPages, roadmap>>
    /\ UNCHANGED layoutVars
    /\ UNCHANGED textVars
    /\ UNCHANGED labelVars
    /\ UNCHANGED toneVars
    /\ UNCHANGED renderVars
    /\ UNCHANGED queryVars

\* the rest of getRoadmapData, once both queries have answered
GetRoadmapData ==
    /\ pc = "query"
    /\ roadmap' = getRoadmapData(experimentPages, releasePages, now)
    /\ pc' = "returned"
    /\ UNCHANGED <<experimentPages, releasePages>>
    /\ UNCHANGED <<experiments, releases, windowStartIso, now, timeline>>
    /\ UNCHANGED textVars
    /\ UNCHANGED labelVars
    /\ UNCHANGED toneVars
    /\ UNCHANGED renderVars
    /\ UNCHANGED queryVars

NextData == AnswerExperimentPage \/ AnswerReleasePage \/ GetRoadmapData

SpecData == InitData /\ [][NextData]_vars

----------------------------------------------------------------------------
(* The state machine of one querySourcePaginated call; a step runs from    *)
(* one fetch to the next.                                                  *)

InitQuery ==
    /\ experiments = <<>>
    /\ releases = <<>>
    /\ windowStartIso = Jan30
    /\ now = 0
    /\ timeline = NoLayout
    /\ pc = "call"
    /\ text = <<>>
    /\ maxChars = 0
    /\ once = NoText
    /\ twice = NoText
    /\ LabelIdle
    /\ ToneIdle
    /\ RenderIdle
    /\ DataIdle
    /\ QueryIdle

otherThanQuery ==
    <<experiments, releases, windowStartIso, now, timeline,
      textVars, labelVars, toneVars, renderVars, dataVars>>

\* the call up to the first fetch: getNotionToken throws without a token
Call ==
    /\ pc = "call"
    /\ \E token \in BOOLEAN :
          IF token
          THEN /\ pc' = "fetch"
               /\ tryIndex' = endpointIndex
               /\ UNCHANGED queryError
          ELSE /\ pc' = "threw"
               /\ queryError' = MissingToken
               /\ UNCHANGED tryIndex
    /\ UNCHANGED <<cursor, hasMore, endpointIndex, selectedEndpoint, results, requests>>
    /\ UNCHANGED otherThanQuery

\* the request of the for loop at tryIndex, with its answer
Sent(response) ==
    Append(requests,
           [endpoint     |-> endpoints[tryIndex + 1],
            start_cursor |-> StartCursor(cursor),
            first        |-> tryIndex = endpointIndex,
            response     |-> response])

\* a fetch answered OK: the rest of the while body, and the start of the
\* next iteration if there is one
FetchOk ==
    /\ pc = "fetch"
    /\ Len(requests) < MaxFetches
    /\ \E response \in Responses(StartCursor(cursor), Len(requests) + 1) :
          /\ ResponseOk(response)
          /\ requests' = Sent(response)
          /\ selectedEndpoint' = endpoints[tryIndex + 1]
          /\ results' = results \o response.results
          /\ hasMore' = response.has_more
          /\ cursor' = NextCursorOf(response)
          /\ IF response.has_more
             THEN /\ endpointIndex' = indexOf(endpoints[tryIndex + 1])
                  /\ tryIndex' = indexOf(endpoints[tryIndex + 1])
                  /\ pc' = "fetch"
             ELSE /\ endpointIndex' = tryIndex
                  /\ UNCHANGED tryIndex
                  /\ pc' = "returned"
    /\ UNCHANGED queryError
    /\ UNCHANGED otherThanQuery

\* a fetch answered with a status other than 404 and 400: the throw inside
\* the for loop
FetchFailed ==
    /\ pc = "fetch"
    /\ Len(requests) < MaxFetches
    /\ \E response \in Responses(StartCursor(cursor), Len(requests) + 1) :
          /\ ~ResponseOk(response)
          /\ response.status # 404 /\ response.status # 400
          /\ requests' = Sent(response)
          /\ queryError' = QueryFailed(response.status)
    /\ pc' = "threw"
    /\ UNCHANGED <<cursor, hasMore, endpointIndex, selectedEndpoint, results, tryIndex>>
    /\ UNCHANGED otherThanQuery

\* a fetch answered 404 or 400: on to the next endpoint, and the throw
\* after the for loop when there is none
FetchNotFound ==
    /\ pc = "fetch"
    /\ Len(requests) < MaxFetches
    /\ \E response \in Responses(StartCursor(cursor), Len(requests) + 1) :
          /\ response.status = 404 \/ response.status = 400
          /\ requests' = Sent(response)
    /\ tryIndex' = tryIndex + 1
    /\ IF tryIndex + 1 < Len(endpoints)
       THEN pc' = "fetch" /\ UNCHANGED queryError
       ELSE pc' = "threw" /\ queryError' = UnableToQuery
    /\ UNCHANGED <<cursor, hasMore, endpointIndex, selectedEndpoint, results>>
    /\ UNCHANGED otherThanQuery

NextQuery == Call \/ FetchOk \/ FetchFailed \/ FetchNotFound

SpecQuery == InitQuery /\ [][NextQuery]_vars

----------------------------------------------------------------------------
(* What the properties read from the state.                                *)

Done == pc = "done"
PE == timeline.positionedExperiments
PR == timeline.positionedReleases

SetMin(S) == CHOOSE x \in S : \A y \in S : x <= y
SetMax(S) == CHOOSE x \in S : \A y \in S : x >= y

\* the day the call took for today: the clock's instant less its time of day
TodayOf(clock) == clock - (clock % MsPerDay)

\* the rows in use before the k-th positioned experiment is placed, the
\* end-marker of row r then (the endIndex of the last experiment placed in
\* it), and the rows whose end-marker is strictly less than its startIndex
RowsBefore(k) == {PE[j].row : j \in 1..(k - 1)}
RowMarkerBefore(k, r) == PE[SetMax({j \in 1..(k - 1) : PE[j].row = r})].endIndex
RowsFreeFor(k) == {r \in RowsBefore(k) : RowMarkerBefore(k, r) < PE[k].startIndex}

\* likewise for lanes: the lane's occupied-until x is the labelEnd of the
\* last release placed in it
LanesBefore(k) == {PR[j].lane : j \in 1..(k - 1)}
LaneMarkerBefore(k, l) == PR[SetMax({j \in 1..(k - 1) : PR[j].lane = l})].labelEnd
ReleaseX(k) == PR[k].dayIndex * 34 + 17
LanesFreeFor(k) == {l \in LanesBefore(k) : ReleaseX(k) > LaneMarkerBefore(k, l) + 12}

\* the width of the label of the k-th positioned release, and whether it is
\* a short one (of the least width)
ReleaseLabelWidth(k) == LabelWidth(compactReleaseLabel(PR[k].name))
ShortLabel(k) == ReleaseLabelWidth(k) = 92

----------------------------------------------------------------------------
(* C1.  In the result of layoutTimeline no two positioned experiments of   *)
(* the same row have [startIndex, endIndex] ranges that share a day: one   *)
(* of the two ends strictly before the other starts.  So two experiments   *)
(* that touch on one day (the startIndex of one is the endIndex of the     *)
(* other) are never in the same row.                                       *)
C1_NoSharedDayInRow ==
    Done =>
        \A i \in 1..Len(PE) : \A j \in 1..Len(PE) :
            (i # j /\ PE[i].row = PE[j].row) =>
                \/ PE[i].endIndex < PE[j].startIndex
                \/ PE[j].endIndex < PE[i].startIndex

\* two experiments share a row, and two that touch on one day do not
C1_Witness ==
    /\ Done
    /\ \E i \in 1..Len(PE) : \E j \in 1..Len(PE) :
          i # j /\ PE[i].row = PE[j].row
    /\ \E i \in 1..Len(PE) : \E j \in 1..Len(PE) :
          /\ i # j
          /\ PE[j].startIndex = PE[i].endIndex
          /\ PE[i].startIndex < PE[i].endIndex
          /\ PE[i].row # PE[j].row

(* C2.  Any two releases of the same lane are separated by the 12px        *)
(* gutter: the anchor x = dayIndex*34 + 17 of the one placed later is      *)
(* strictly greater than the labelEnd of the one placed earlier plus 12,   *)
(* and labelEnd is x + labelWidth.                                         *)
C2_LaneGutter ==
    Done =>
        /\ \A k \in 1..Len(PR) :
              PR[k].labelEnd = ReleaseX(k) + ReleaseLabelWidth(k)
        /\ \A i \in 1..Len(PR) : \A j \in 1..Len(PR) :
              (i < j /\ PR[i].lane = PR[j].lane) =>
                  ReleaseX(j) > PR[i].labelEnd + 12

\* two releases share a lane, and two whose labels are apart, but by no
\* more than 12px, do not
C2_Witness ==
    /\ Done
    /\ \E i \in 1..Len(PR) : \E j \in 1..Len(PR) :
          i < j /\ PR[i].lane = PR[j].lane
    /\ \E i \in 1..Len(PR) : \E j \in 1..Len(PR) :
          /\ i < j
          /\ ReleaseX(j) > PR[i].labelEnd
          /\ ReleaseX(j) <= PR[i].labelEnd + 12
          /\ PR[i].lane # PR[j].lane

(* C3 as stated.  For every input the returned totalDays equals            *)
(* diffDays(startDate, endDate) + 1 of the returned dates and is >= 1.     *)
C3_TotalDaysIsSpan ==
    Done =>
        /\ timeline.totalDays = diffDays(timeline.startDate, timeline.endDate) + 1
        /\ timeline.totalDays >= 1

(* C3 as amended.  totalDays is max(1, diffDays(startDate, endDate) + 1)   *)
(* and so >= 1; it equals diffDays(startDate, endDate) + 1 whenever the    *)
(* window start is not after the returned endDate, and is 1 otherwise.     *)
C3_TotalDaysClamped ==
    Done =>
        LET span == RoundDiv(timeline.endDate - timeline.startDate, MsPerDay) + 1
        IN  /\ timeline.totalDays >= 1
            /\ timeline.startDate <= timeline.endDate => timeline.totalDays = span
            /\ timeline.startDate > timeline.endDate => timeline.totalDays = 1
            /\ timeline.startDate = utcDate(windowStartIso)

\* a call whose window start is after endDate, with items in the lists
C3_Witness ==
    /\ Done
    /\ timeline.startDate > timeline.endDate
    /\ timeline.totalDays = 1
    /\ experiments # <<>>
    /\ releases # <<>>

(* C4.  experimentRows >= 1 and releaseLanes >= 1 always, also for an      *)
(* empty experiment list, release list or both; for a non-empty list the   *)
(* count is the number of distinct rows (lanes) assigned.                  *)
C4_CountsAtLeastOne ==
    Done =>
        /\ timeline.experimentRows >= 1
        /\ timeline.releaseLanes >= 1
        /\ experiments = <<>> => timeline.experimentRows = 1
        /\ releases = <<>> => timeline.releaseLanes = 1
        /\ experiments # <<>> =>
              timeline.experimentRows = Cardinality({PE[i].row : i \in 1..Len(PE)})
        /\ releases # <<>> =>
              timeline.releaseLanes = Cardinality({PR[i].lane : i \in 1..Len(PR)})

\* no experiments, and releases in two lanes
C4_Witness ==
    /\ Done
    /\ experiments = <<>>
    /\ timeline.experimentRows = 1
    /\ timeline.releaseLanes = 2

(* C5.  canvasWidth is the maximum of totalDays * 34 and, over the         *)
(* releases, x + labelWidth + 20: it is at least each of them and equal    *)
(* to one of them.                                                         *)
C5_CanvasWidth ==
    Done =>
        LET ends == {ReleaseX(k) + ReleaseLabelWidth(k) + 20 : k \in 1..Len(PR)}
            all  == ends \cup {timeline.totalDays * 34}
        IN  /\ timeline.canvasWidth >= timeline.totalDays * DAY_WIDTH
            /\ \A k \in 1..Len(PR) : PR[k].labelEnd + 20 <= timeline.canvasWidth
            /\ timeline.canvasWidth = SetMax(all)

\* a label reaches past the last day column and sets the width
C5_Witness ==
    /\ Done
    /\ timeline.canvasWidth > timeline.totalDays * 34
    /\ Len(PR) >= 2

(* C6.  The returned endDate is the latest of today (the clock's instant   *)
(* truncated to its UTC day), every experiment's endDate and every         *)
(* release's date: it is one of them and none is later.                    *)
C6_EndDateIsLatest ==
    Done =>
        LET dates == {TodayOf(now)}
                     \cup {utcDate(experiments[i].endDate) : i \in 1..Len(experiments)}
                     \cup {utcDate(releases[i].date) : i \in 1..Len(releases)}
        IN  /\ timeline.endDate \in dates
            /\ \A d \in dates : timeline.endDate >= d

\* an experiment ends after today and after every release
C6_Witness ==
    /\ Done
    /\ timeline.endDate > TodayOf(now)
    /\ releases # <<>>
    /\ \A i \in 1..Len(releases) : utcDate(releases[i].date) < timeline.endDate
    /\ now > TodayOf(now)

(* C7.  layoutTimeline assigns rows first-fit: the positioned experiments  *)
(* are in ascending startDate order, and each gets the lowest row in use   *)
(* whose end-marker (the endIndex of the last experiment placed in it) is  *)
(* strictly less than its startIndex, or the next new row when there is    *)
(* none.  In particular a row whose last experiment ends the day before    *)
(* an experiment starts (end-marker = startIndex - 1) is free for it: the  *)
(* experiment opens no new row and gets that row, the lowest free row      *)
(* being the one taken when several are free.  And two overlapping         *)
(* experiments that start on different days get rows 0 and 1, with         *)
(* experimentRows = 2.                                                     *)
C7_FirstFit ==
    \A k \in 1..Len(PE) :
        /\ \A j \in 1..(k - 1) : utcDate(PE[j].startDate) <= utcDate(PE[k].startDate)
        /\ RowsFreeFor(k) # {} => PE[k].row = SetMin(RowsFreeFor(k))
        /\ RowsFreeFor(k) = {} => PE[k].row = Cardinality(RowsBefore(k))

C7_OverlappingPair ==
    (/\ Len(experiments) = 2
     /\ utcDate(experiments[1].startDate) < utcDate(experiments[2].startDate)
     /\ utcDate(experiments[2].startDate) <= utcDate(experiments[1].endDate))
    => /\ PE[1].id = 1 /\ PE[1].row = 0
       /\ PE[2].id = 2 /\ PE[2].row = 1
       /\ timeline.experimentRows = 2

C7_RowsFirstFit ==
    Done =>
        /\ C7_FirstFit
        /\ C7_OverlappingPair
        /\ \A k \in 1..Len(PE) : \A r \in RowsBefore(k) :
              PE[k].startIndex = RowMarkerBefore(k, r) + 1 =>
                  /\ PE[k].row \in RowsBefore(k)
                  /\ PE[k].row <= r
                  /\ (\A q \in RowsFreeFor(k) : q >= r) => PE[k].row = r

\* row 0 is still occupied and row 1 ended the day before: the third
\* experiment reuses row 1
C7_Witness ==
    /\ Done
    /\ \E k \in 1..Len(PE) :
          /\ RowsBefore(k) = {0, 1}
          /\ RowMarkerBefore(k, 0) >= PE[k].startIndex
          /\ PE[k].startIndex = RowMarkerBefore(k, 1) + 1
          /\ PE[k].row = 1

(* C8 as stated.  layoutTimeline assigns lanes first-fit: the positioned   *)
(* releases are in ascending date order, and each gets the lowest lane in  *)
(* use with x > occupiedUntil + 12, or a new lane when there is none.  So  *)
(* two releases on the same day with short labels share lane 0.            *)
C8_FirstFit ==
    \A k \in 1..Len(PR) :
        /\ \A j \in 1..(k - 1) : utcDate(PR[j].date) <= utcDate(PR[k].date)
        /\ LanesFreeFor(k) # {} => PR[k].lane = SetMin(LanesFreeFor(k))
        /\ LanesFreeFor(k) = {} => PR[k].lane = Cardinality(LanesBefore(k))

C8_LanesFirstFitSameDay ==
    Done =>
        /\ C8_FirstFit
        /\ (/\ Len(PR) = 2
            /\ PR[1].date = PR[2].date
            /\ ShortLabel(1) /\ ShortLabel(2))
           => (PR[1].lane = 0 /\ PR[2].lane = 0)

(* C8 as amended.  The first-fit rule as stated.  Two releases on the same *)
(* day are never more than 12px apart in lane-occupancy terms (the second  *)
(* one's x is the first one's, and the first one's label ends at least     *)
(* 92px after it), so they are always in different lanes; two releases     *)
(* with short labels share lane 0 when the later one's x exceeds the       *)
(* earlier one's labelEnd by more than 12, which takes four days or more.  *)
C8_LanesFirstFit ==
    Done =>
        /\ C8_FirstFit
        /\ \A i \in 1..Len(PR) : \A j \in 1..Len(PR) :
              (i # j /\ PR[i].date = PR[j].date) => PR[i].lane # PR[j].lane
        /\ (/\ Len(PR) = 2
            /\ ShortLabel(1) /\ ShortLabel(2))
           => /\ PR[1].lane = 0
              /\ PR[2].lane = 0 <=> ReleaseX(2) > PR[1].labelEnd + 12
              /\ PR[2].lane = 0 <=> PR[2].dayIndex - PR[1].dayIndex >= 4

\* two releases with short labels on the same day, in lanes 0 and 1, and a
\* third that shares lane 0
C8_Witness ==
    /\ Done
    /\ Len(PR) = 3
    /\ PR[1].date = PR[2].date
    /\ ShortLabel(1) /\ ShortLabel(2)
    /\ PR[1].lane = 0 /\ PR[2].lane = 1
    /\ PR[3].lane = 0
    /\ Cardinality(LanesFreeFor(3)) = 2

(* C9.  For every input, also with an endDate before the startDate and     *)
(* with items dated before the window start, every positioned experiment   *)
(* has row >= 0, startIndex >= 0 and endIndex >= startIndex, and every     *)
(* positioned release has lane >= 0 and dayIndex >= 0.                     *)
C9_IndicesInRange ==
    Done =>
        /\ Len(PE) = Len(experiments)
        /\ Len(PR) = Len(releases)
        /\ \A k \in 1..Len(PE) :
              PE[k].row >= 0 /\ PE[k].startIndex >= 0
              /\ PE[k].endIndex >= PE[k].startIndex
        /\ \A k \in 1..Len(PR) :
              PR[k].lane >= 0 /\ PR[k].dayIndex >= 0

\* an experiment that ends before it starts, both before the window start,
\* and a release dated before the window start
C9_Witness ==
    /\ Done
    /\ \E k \in 1..Len(PE) :
          /\ utcDate(PE[k].endDate) < utcDate(PE[k].startDate)
          /\ utcDate(PE[k].startDate) < timeline.startDate
    /\ \E k \in 1..Len(PR) : utcDate(PR[k].date) < timeline.startDate

(* C10.  clampText is idempotent: for every string s and every integer n,  *)
(* also n < 1, clampText(clampText(s, n), n) = clampText(s, n).            *)
C10_ClampIdempotent ==
    twice # NoText => twice = once

(* C11.  For maxChars < 1, clampText(text, maxChars) behaves as            *)
(* clampText(text, 1): it returns text unchanged when its length is at     *)
(* most 1 and otherwise only the ellipsis character.                       *)
C11_ClampBelowOne ==
    (once # NoText /\ maxChars < 1) =>
        once = (IF Len(text) <= 1 THEN text ELSE <<Ellipsis>>)

\* word occurs in s at position i (1-based)
OccursAt(s, word, i) ==
    /\ i + Len(word) - 1 <= Len(s)
    /\ \A j \in 1..Len(word) : s[i + j - 1] = word[j]

(* C12.  The result of compactReleaseLabel contains no occurrence of the   *)
(* word "Backend".                                                         *)
C12_NoBackendLeft ==
    compacted # NoText => \A i \in 1..Len(compacted) : ~OccursAt(compacted, BackendWord, i)

\* some keyword of the set occurs in s, letter case ignored
HasKeyword(s, keywords) ==
    \E k \in keywords, i \in 1..Len(s) :
        /\ i + Len(k) - 1 <= Len(s)
        /\ \A j \in 1..Len(k) : toLowerChar(s[i + j - 1]) = k[j]

(* C13.  stageTone classifies case-insensitively by fixed priority: a      *)
(* stage with a running keyword is "running"; otherwise one with a winner  *)
(* keyword is "winner", even with an ended keyword; otherwise one with an  *)
(* ended keyword is "ended"; otherwise "neutral".                          *)
C13_TonePriority ==
    tone # NoTone =>
        /\ HasKeyword(stageArg, RunningKeywords) => tone = "running"
        /\ (~HasKeyword(stageArg, RunningKeywords)
               /\ HasKeyword(stageArg, WinnerKeywords)) => tone = "winner"
        /\ (~HasKeyword(stageArg, RunningKeywords)
               /\ ~HasKeyword(stageArg, WinnerKeywords)
               /\ HasKeyword(stageArg, EndedKeywords)) => tone = "ended"
        /\ (~HasKeyword(stageArg, RunningKeywords)
               /\ ~HasKeyword(stageArg, WinnerKeywords)
               /\ ~HasKeyword(stageArg, EndedKeywords)) => tone = "neutral"

\* a stage of mixed letter case with an ended keyword before a winner
\* keyword is classified "winner"
C13_Witness ==
    /\ tone = "winner"
    /\ HasKeyword(stageArg, EndedKeywords)
    /\ stageArg # toLowerCase(stageArg)
    /\ \E k \in EndedKeywords : OccursAt(toLowerCase(stageArg), k, 1)

(* C14.  Whenever getRoadmapData throws, whatever the thrown value and    *)
(* its message, the interactive page returns its error panel and the       *)
(* vector route its error graphic with status 500, and neither render      *)
(* calls layoutTimeline.                                                   *)
C14_FailureShowsError ==
    failure.thrown =>
        /\ page.kind # "none" =>
              (page.kind = "errorPanel" /\ ~page.layoutCalled)
        /\ svg.kind # "none" =>
              (svg.kind = "errorSvg" /\ svg.status = 500 /\ ~svg.layoutCalled)

(* C15.  Every ExperimentItem returned by getRoadmapData has               *)
(* endDate >= startDate.                                                   *)
C15_EndNotBeforeStart ==
    pc = "returned" =>
        \A i \in 1..Len(roadmap.experiments) :
            localeCompare(roadmap.experiments[i].endDate,
                          roadmap.experiments[i].startDate) >= 0

\* the ranges of positioned experiments a and b share a day
ShareDay(a, b) == a.startIndex <= b.endIndex /\ b.startIndex <= a.endIndex

\* the ranges of the positioned experiments can be placed in k rows with no
\* two ranges of a row sharing a day
Packable(positioned, k) ==
    \E rowOf \in [1..Len(positioned) -> 0..(k - 1)] :
        \A i, j \in 1..Len(positioned) :
            (i < j /\ rowOf[i] = rowOf[j]) => ~ShareDay(positioned[i], positioned[j])

\* the minimum number of rows for the ranges of at least one experiment
MinRows(positioned) ==
    CHOOSE k \in 1..Len(positioned) :
        /\ Packable(positioned, k)
        /\ \A fewer \in 1..(k - 1) : ~Packable(positioned, fewer)

\* every list of experiments the caller can pass
ExperimentLists ==
    UNION { [1..n -> [id : {0}, startDate : ExperimentDates, endDate : ExperimentDates]]
            : n \in 1..MaxItems }

(* C16 as stated.  There is a list of experiments for which experimentRows *)
(* is larger than the minimum number of rows in which their ranges can be  *)
(* placed with no two ranges of a row sharing a day (read once a call has  *)
(* returned; the lists, window starts and clocks are all those of the      *)
(* model, not only this call's).                                           *)
C16_FirstFitNotMinimal ==
    Done =>
    \E exps \in ExperimentLists, windowStart \in WindowStarts, clock \in Clock :
        LET layout == layoutTimeline(exps, <<>>, windowStart, clock)
        IN  layout.experimentRows > MinRows(layout.positionedExperiments)

(* C16, corrected.  For every list of at least one experiment,             *)
(* experimentRows is the minimum number of rows in which the ranges can be *)
(* placed with no two ranges of a row sharing a day: first-fit over the    *)
(* ranges sorted by start is a minimum-row packing.                        *)
C16_RowsMinimal ==
    (Done /\ PE # <<>>) => timeline.experimentRows = MinRows(PE)

\* three experiments given out of start order that need two rows
C16_Witness ==
    /\ Done
    /\ Len(PE) = MaxItems
    /\ timeline.experimentRows = 2
    /\ ~Packable(PE, 1)
    /\ \E i \in 1..(Len(experiments) - 1) :
          localeCompare(experiments[i].startDate, experiments[i + 1].startDate) > 0
    /\ \E i, j \in 1..Len(PE) : i < j /\ PE[i].row = PE[j].row

\* both adapters have rendered the data getRoadmapData returned
BothRendered == ~failure.thrown /\ page.kind = "timeline" /\ svg.kind = "svg"

(* C17.  For every positioned experiment and release both adapters compute *)
(* the same geometry from the layout: bar x = startIndex*34 + 2, bar width *)
(* = max(34, (endIndex - startIndex + 1)*34 - 4), release x = dayIndex*34  *)
(* + 17, vertical offsets experimentBandTop + row*40 and releaseBandTop +  *)
(* lane*28 from the top of the timeline body, the vector adapter adding    *)
(* exactly 74.                                                             *)
C17_SameGeometry ==
    BothRendered =>
        LET layout == page.timeline
            bands  == getBandLayout(layout)
        IN  /\ svg.timeline = layout
            /\ Len(page.bars) = Len(layout.positionedExperiments)
            /\ Len(svg.bars) = Len(layout.positionedExperiments)
            /\ Len(page.markers) = Len(layout.positionedReleases)
            /\ Len(svg.markers) = Len(layout.positionedReleases)
            /\ \A i \in 1..Len(layout.positionedExperiments) :
                  LET exp   == layout.positionedExperiments[i]
                      x     == exp.startIndex * 34 + 2
                      width == Max(34, (exp.endIndex - exp.startIndex + 1) * 34 - 4)
                      top   == bands.experimentBandTop + exp.row * 40
                  IN  /\ page.bars[i] = [left |-> x, width |-> width, top |-> top]
                      /\ svg.bars[i] = [x |-> x, width |-> width, y |-> top + 74]
            /\ \A i \in 1..Len(layout.positionedReleases) :
                  LET release == layout.positionedReleases[i]
                      x       == release.dayIndex * 34 + 17
                      y       == bands.releaseBandTop + release.lane * 28
                  IN  /\ page.markers[i] = [x |-> x, y |-> y]
                      /\ svg.markers[i].x = x
                      /\ svg.markers[i].y = y + 74

\* both adapters have drawn a bar in the second row that is wider than a
\* day, or a marker in the second lane that is not on the first day
C17_Witness ==
    /\ BothRendered
    /\ \/ \E i \in 1..Len(page.bars) :
              /\ page.timeline.positionedExperiments[i].row = 1
              /\ page.bars[i].width > DAY_WIDTH
              /\ svg.bars[i].y = page.bars[i].top + HEADER_HEIGHT
       \/ \E i \in 1..Len(page.markers) :
              /\ page.timeline.positionedReleases[i].lane = 1
              /\ page.timeline.positionedReleases[i].dayIndex > 0
              /\ svg.markers[i].y = page.markers[i].y + HEADER_HEIGHT

(* C18.  For every release and every size variant, the label rectangle    *)
(* the vector adapter draws (from x + 10, of the width computed from the   *)
(* compacted name plus the platform tag) lies inside the canvas: its right *)
(* edge is <= canvasWidth.  Widths are in hundredths of a pixel.           *)
C18_LabelInsideCanvas ==
    svg.kind = "svg" =>
        \A i \in 1..Len(svg.markers) :
            svg.markers[i].labelX * 100 + svg.markers[i].labelWidth100
                <= svg.timeline.canvasWidth * 100

\* the input item a positioned item was made from: the positioned item
\* less the fields the layout added
InputOfExperiment(p) ==
    [id |-> p.id, startDate |-> p.startDate, endDate |-> p.endDate]
InputOfRelease(p) == [id |-> p.id, name |-> p.name, date |-> p.date]

\* the place in the input list of the item with this id
PlaceOf(id, inputs) == CHOOSE i \in 1..Len(inputs) : inputs[i].id = id

\* positioned holds each item of inputs exactly once
SameItems(positioned, inputs, InputOf(_)) ==
    /\ Len(positioned) = Len(inputs)
    /\ \A i \in 1..Len(inputs) :
          Cardinality({k \in 1..Len(positioned) : InputOf(positioned[k]) = inputs[i]}) = 1

\* positioned is in ascending order of key, items of equal key in the order
\* of inputs
StablySorted(positioned, inputs, key) ==
    \A k, l \in 1..Len(positioned) :
        k < l =>
            /\ localeCompare(positioned[k][key], positioned[l][key]) <= 0
            /\ positioned[k][key] = positioned[l][key] =>
                  PlaceOf(positioned[k].id, inputs) < PlaceOf(positioned[l].id, inputs)

C19_Order ==
    Done =>
        /\ SameItems(PE, experiments, InputOfExperiment)
        /\ StablySorted(PE, experiments, "startDate")
        /\ \A k, l \in 1..Len(PE) :
              (k < l /\ PE[k].startDate = PE[l].startDate) => PE[k].row < PE[l].row
        /\ SameItems(PR, releases, InputOfRelease)
        /\ StablySorted(PR, releases, "date")

C19_InputsUnchanged ==
    pc' = "done" => (experiments' = experiments /\ releases' = releases)

(* C19.  positionedExperiments contains each input experiment exactly      *)
(* once, in ascending order of startDate, experiments of equal startDate   *)
(* in their input order, the earlier of them in the lower row;             *)
(* positionedReleases likewise by date; the call leaves the input lists    *)
(* unchanged.                                                              *)
C19_StableOrder == []C19_Order /\ [][C19_InputsUnchanged]_vars

\* two experiments of equal startDate after one of a later startDate in
\* the input: they come first, in their input order and in rising rows
C19_Witness ==
    /\ Done
    /\ \E i, j, k \in 1..Len(experiments) :
          /\ i < j /\ j < k
          /\ experiments[j].startDate = experiments[k].startDate
          /\ localeCompare(experiments[i].startDate, experiments[j].startDate) > 0
          /\ PE[1].id = j /\ PE[2].id = k /\ PE[3].id = i
          /\ PE[1].row < PE[2].row

(* C20.  Within one render every comparison against today uses the same   *)
(* day: the today index an adapter computes after layoutTimeline has       *)
(* returned refers to the day layoutTimeline took for endDate, so whenever *)
(* the window start is not after today the today line is drawn             *)
(* (0 <= todayIndex < totalDays).                                          *)
C20_TodayLineDrawn ==
    /\ (~failure.thrown /\ page.kind = "timeline"
           /\ page.timeline.startDate <= startOfUtcDay(now)) =>
          /\ page.hasToday
          /\ page.todayIndex = diffDays(page.timeline.startDate, startOfUtcDay(now))
    /\ (svg.kind = "svg" /\ svg.timeline.startDate <= startOfUtcDay(now)) =>
          /\ svg.hasToday
          /\ svg.todayIndex = diffDays(svg.timeline.startDate, startOfUtcDay(now))

(* C21.  Every positioned item lies inside the day window, for every      *)
(* input: each positioned experiment has endIndex <= totalDays - 1 and     *)
(* each positioned release has dayIndex <= totalDays - 1, so the right     *)
(* edge startIndex*34 + 2 + width of every bar is <= canvasWidth.          *)
C21_InsideWindow ==
    Done =>
        /\ \A k \in 1..Len(PE) :
              /\ PE[k].endIndex <= timeline.totalDays - 1
              /\ PE[k].startIndex * 34 + 2
                    + Max(34, (PE[k].endIndex - PE[k].startIndex + 1) * 34 - 4)
                 <= timeline.canvasWidth
        /\ \A k \in 1..Len(PR) : PR[k].dayIndex <= timeline.totalDays - 1

\* the bands of the layout the call returned
Bands == getBandLayout(timeline)

(* C22.  Row and lane numbers are dense and bounded by the reported        *)
(* counts: every positioned experiment has row < experimentRows and, with  *)
(* at least one experiment, every row 0..experimentRows-1 is used;         *)
(* likewise lane < releaseLanes with every lane used.  Consequently every  *)
(* bar (30 high from experimentBandTop + row*40) lies inside the           *)
(* experiment band and every marker (its lane of 28 from releaseBandTop +  *)
(* lane*28) inside the release band of getBandLayout, the bands do not     *)
(* overlap and end inside the body.                                        *)
C22_DenseAndInsideBands ==
    Done =>
        /\ \A k \in 1..Len(PE) : PE[k].row >= 0 /\ PE[k].row < timeline.experimentRows
        /\ PE # <<>> =>
              \A r \in 0..(timeline.experimentRows - 1) :
                  \E k \in 1..Len(PE) : PE[k].row = r
        /\ \A k \in 1..Len(PR) : PR[k].lane >= 0 /\ PR[k].lane < timeline.releaseLanes
        /\ PR # <<>> =>
              \A l \in 0..(timeline.releaseLanes - 1) :
                  \E k \in 1..Len(PR) : PR[k].lane = l
        /\ \A k \in 1..Len(PE) :
              LET top == PageBar(PE[k], Bands).top
              IN  /\ top = 18 + PE[k].row * 40
                  /\ top >= Bands.experimentBandTop
                  /\ top + 30 <= Bands.experimentBandTop + Bands.experimentBandHeight
        /\ \A k \in 1..Len(PR) :
              LET y == PageMarker(PR[k], Bands).y
              IN  /\ y >= Bands.releaseBandTop
                  /\ y + 28 <= Bands.releaseBandTop + Bands.releaseBandHeight
        /\ Bands.experimentBandTop + Bands.experimentBandHeight <= Bands.releaseBandTop
        /\ Bands.releaseBandTop + Bands.releaseBandHeight <= Bands.bodyHeight

\* a layout with a bar and a marker that needs a second row or a second
\* lane, the last of them filled
C22_Witness ==
    /\ Done
    /\ PE # <<>> /\ PR # <<>>
    /\ timeline.experimentRows + timeline.releaseLanes = MaxItems
    /\ \E k \in 1..Len(PE) : PE[k].row = timeline.experimentRows - 1
    /\ \E k \in 1..Len(PR) : PR[k].lane = timeline.releaseLanes - 1

\* the n-th fetch of the call was answered OK
AnsweredOk(n) == ResponseOk(requests[n].response)

\* the last fetch before the n-th that was answered OK, 0 if none
LastOkBefore(n) ==
    IF \E m \in 1..(n - 1) : AnsweredOk(m)
    THEN SetMax({m \in 1..(n - 1) : AnsweredOk(m)})
    ELSE 0

(* C23.  In one querySourcePaginated call the endpoint choice only moves   *)
(* forward: the first request of a page goes to the endpoint that answered *)
(* the page before OK (the data_sources endpoint for the first page), a    *)
(* further request of a page goes to the next endpoint after a 404 or 400, *)
(* after a request to the databases endpoint the data_sources endpoint is  *)
(* never requested again, and a non-OK status other than 400 or 404 ends   *)
(* the call with an error at once, with no request after it.               *)
C23_EndpointForwardOnly ==
    /\ \A n \in 1..Len(requests) :
          /\ requests[n].first =>
                requests[n].endpoint =
                    (IF LastOkBefore(n) = 0
                     THEN "data_sources"
                     ELSE requests[LastOkBefore(n)].endpoint)
          /\ ~requests[n].first =>
                /\ requests[n - 1].response.status \in {400, 404}
                /\ requests[n - 1].endpoint = "data_sources"
                /\ requests[n].endpoint = "databases"
                /\ requests[n].start_cursor = requests[n - 1].start_cursor
          /\ \A m \in 1..(n - 1) :
                requests[m].endpoint = "databases" => requests[n].endpoint = "databases"
          /\ (~AnsweredOk(n) /\ requests[n].response.status \notin {400, 404}) =>
                /\ n = Len(requests)
                /\ pc = "threw"
                /\ queryError = QueryFailed(requests[n].response.status)
    /\ pc = "threw" => queryError # NoError

\* a call whose first page the data_sources endpoint answered, whose
\* second page it refused and the databases endpoint answered, and whose
\* third page was then asked of the databases endpoint first
C23_Witness ==
    /\ Len(requests) = 4
    /\ requests[1].endpoint = "data_sources" /\ AnsweredOk(1)
    /\ requests[2].endpoint = "data_sources" /\ requests[2].response.status = 404
    /\ requests[3].endpoint = "databases" /\ AnsweredOk(3)
    /\ requests[4].endpoint = "databases" /\ requests[4].first
    /\ requests[4].response.status = 500
    /\ pc = "threw"

\* the results of the fetches answered OK among the first n, in fetch order
RECURSIVE ResultsUpTo(_)
ResultsUpTo(n) ==
    IF n = 0
    THEN <<>>
    ELSE ResultsUpTo(n - 1)
         \o (IF AnsweredOk(n) THEN requests[n].response.results ELSE <<>>)

\* the cursor strings of the server
IsCursorString(c) == \E k \in 1..Len(CursorNames) : CursorNames[k] = c

(* C24.  The pagination loop always makes progress: every OK response with *)
(* has_more = true is followed by a request carrying that response's       *)
(* next_cursor; no cursor, the absent cursor of the initial request        *)
(* included, is the start of two pages; the returned list holds each       *)
(* page's results exactly once in fetch order; the call returns once a     *)
(* response has has_more = false.  This also when a response has has_more  *)
(* = true and no next_cursor.                                              *)
C24_PaginationProgress ==
    /\ \A n \in 1..(Len(requests) - 1) :
          (AnsweredOk(n) /\ requests[n].response.has_more
             /\ IsCursorString(requests[n].response.next_cursor)) =>
              requests[n + 1].start_cursor = requests[n].response.next_cursor
    /\ \A m, n \in 1..Len(requests) :
          (m < n /\ requests[m].first /\ requests[n].first) =>
              requests[m].start_cursor # requests[n].start_cursor
    /\ \A n \in 1..Len(requests) :
          (AnsweredOk(n) /\ ~requests[n].response.has_more) =>
              (n = Len(requests) /\ pc = "returned")
    /\ pc = "returned" =>
          /\ results = ResultsUpTo(Len(requests))
          /\ \A i, j \in 1..Len(results) : i < j => results[i] # results[j]

====
